---- MODULE Spec2Model ----
(***************************************************************************)
(* A model of the Aura interpreter's parser (precedence climbing over a    *)
(* two-token lookahead) and of the evaluator's list/map operations.         *)
(*                                                                         *)
(* The parser's functions are operators over a parser record               *)
(*   [lexer, pos, errors, status]                                          *)
(* where lexer is the token sequence the lexer will hand out, pos is the    *)
(* index of currentToken (peekToken is the token at pos + 1) and status is  *)
(* "ok", "panic" (a Go panic unwinding to the caller) or "hang" (a loop     *)
(* whose iteration left the parser unchanged).  Every operator returns the  *)
(* new parser record together with the node(s) it built.                    *)
(***************************************************************************)
EXTENDS Integers, Sequences, FiniteSets, TLC

\* The parser: the token stream, the cursor, the error list, the Program so
\* far and where ParseProgam is.  The evaluator: the map literal being
\* evaluated, the Map built so far, the position of evaluateMap's loop, the
\* object it returned and the kind of key serialization.  The objects of a
\* running program: the Lists and Maps its bindings point to, the operation
\* evaluated last, the object it returned, the number of operations so far
\* and what Map.Get returns for a key that is not stored.
VARIABLES lexer, pos, errors, program, pc, mapa, mapObj, idx, result, tagged,
          heap, last, ret, steps, absentIsNil

vars == <<lexer, pos, errors, program, pc, mapa, mapObj, idx, result, tagged,
          heap, last, ret, steps, absentIsNil>>

parserVars == <<lexer, pos, errors, program, pc>>

mapVars == <<mapa, mapObj, idx, result>>

objectVars == <<heap, last, ret, steps, absentIsNil>>

-----------------------------------------------------------------------------
(* Tokens                                                                  *)

NewToken(t, literal) == [Token_type |-> t, Literal |-> literal]

EOFTok == NewToken("EOF", "")

\* The literal the lexer attaches to a token of each kind used in the model.
TokenLiterals ==
  "AND" :> "&&" @@ "ASSING" :> "=" @@ "ARROW" :> "->" @@ "BAR" :> "|" @@
  "COLON" :> ":" @@ "COMMA" :> "," @@ "DIVISION" :> "/" @@
  "DIVASSING" :> "/=" @@ "ELSE" :> "si_no" @@ "EQ" :> "==" @@
  "EXPONENT" :> "**" @@ "FALSE" :> "falso" @@ "FOR" :> "por" @@
  "FUNCTION" :> "funcion" @@ "GT" :> ">" @@ "GTOREQ" :> ">=" @@
  "IDENT" :> "x" @@ "IF" :> "si" @@ "ILLEGAL" :> "@" @@ "IN" :> "en" @@
  "INT" :> "1" @@ "LBRACE" :> "{" @@ "LBRACKET" :> "[" @@ "LET" :> "var" @@
  "LPAREN" :> "(" @@ "LT" :> "<" @@ "LTOREQ" :> "<=" @@ "MINUS" :> "-" @@
  "MINUS2" :> "--" @@ "MINUSASSING" :> "-=" @@ "NOT" :> "!" @@
  "NOT_EQ" :> "!=" @@ "MOD" :> "%" @@ "OR" :> "||" @@ "PLUS" :> "+" @@
  "PLUS2" :> "++" @@ "PLUSASSING" :> "+=" @@ "RBRACE" :> "}" @@
  "RBRACKET" :> "]" @@ "RETURN" :> "regresa" @@ "RPAREN" :> ")" @@
  "SEMICOLON" :> ";" @@ "TIMES" :> "*" @@ "TIMEASSI" :> "*=" @@
  "STRING" :> "s" @@ "TRUE" :> "verdadero" @@ "WHILE" :> "mientras" @@
  "NULLT" :> "nulo" @@ "DATASTRCUT" :> "lista" @@ "CLASS" :> "clase" @@
  "DOT" :> "." @@ "COLONASSING" :> ":="

Tok(t) == NewToken(t, TokenLiterals[t])

\* An INT token whose digits do not fit the host integer.
BigIntTok == NewToken("INT", "99999999999999999999")

\* The decimal numerals of the model's INT literals.
Digits == <<"1", "2", "3", "4", "5", "6", "7", "8", "9">>

\* strconv.Atoi on the literals of the model: the value of a numeral, an
\* error for anything else (the out-of-range literal of BigIntTok).
Atoi(literal) ==
  IF \E d \in DOMAIN Digits : Digits[d] = literal
  THEN [val |-> CHOOSE d \in DOMAIN Digits : Digits[d] = literal,
        err |-> FALSE]
  ELSE [val |-> 0, err |-> TRUE]

-----------------------------------------------------------------------------
(* Precedences                                                             *)

LOWEST     == 1
ANDOR      == 2
EQUEAL     == 3
LESSGRATER == 4
SUM        == 5
PRODUCT    == 6
PREFIX     == 7
CALL       == 8

precedences ==
  "AND" :> ANDOR @@ "EQ" :> EQUEAL @@ "NOT_EQ" :> EQUEAL @@
  "LT" :> LESSGRATER @@ "LTOREQ" :> LESSGRATER @@ "GT" :> LESSGRATER @@
  "GTOREQ" :> LESSGRATER @@ "PLUS" :> SUM @@ "MINUS" :> SUM @@
  "DIVISION" :> PRODUCT @@ "TIMES" :> PRODUCT @@ "MOD" :> PRODUCT @@
  "LPAREN" :> CALL @@ "LBRACKET" :> CALL @@ "OR" :> ANDOR @@
  "ASSING" :> ANDOR @@ "COLON" :> CALL @@ "PLUSASSING" :> PRODUCT @@
  "MINUSASSING" :> PRODUCT @@ "DIVASSING" :> PRODUCT @@
  "EXPONENT" :> PRODUCT @@ "TIMEASSI" :> PRODUCT @@ "PLUS2" :> PRODUCT @@
  "MINUS2" :> PRODUCT @@ "DOT" :> PREFIX @@ "COLONASSING" :> PREFIX

\* Token kinds registered to parseInfixExpression.
InfixExpressionTypes ==
  { "PLUS", "MINUS", "DIVISION", "TIMES", "EQ", "NOT_EQ", "GTOREQ", "LTOREQ",
    "LT", "IN", "GT", "PLUSASSING", "MINUSASSING", "TIMEASSI", "DIVASSING",
    "EXPONENT", "MOD", "AND", "OR" }

\* Token kinds with a registered infix handler.
infixParseFns ==
  InfixExpressionTypes \cup
  { "COLON", "LPAREN", "ASSING", "LBRACKET", "DOT", "COLONASSING" }

\* Token kinds with a registered suffix handler.
suffixParseFns == { "EXPONENT", "PLUS2", "MINUS2" }

\* Token kinds with a registered prefix handler whose code is in the sources.
prefixParsFns ==
  { "FALSE", "FOR", "FUNCTION", "WHILE", "IDENT", "IF", "INT", "LPAREN",
    "MINUS", "NOT", "TRUE", "STRING", "DATASTRCUT", "NULLT" }

-----------------------------------------------------------------------------
(* Parser record and cursor                                                *)

NewParser(toks) == [lexer |-> toks, pos |-> 1, errors |-> <<>>, status |-> "ok"]

\* lexer.NextToken: the tokens in order, then EOF for ever.
TokAt(p, i) == IF i \in 1..Len(p.lexer) THEN p.lexer[i] ELSE EOFTok

currentToken(p) == TokAt(p, p.pos)

peekToken(p) == TokAt(p, p.pos + 1)

cur(p) == currentToken(p).Token_type

peek(p) == peekToken(p).Token_type

\* Once currentToken is EOF so is peekToken and advancing changes nothing.
\* Nothing runs after a panic or inside a loop that never ends.
advanceTokens(p) ==
  IF p.status # "ok" \/ p.pos > Len(p.lexer) THEN p
  ELSE [p EXCEPT !.pos = @ + 1]

currentPrecedence(p) ==
  IF cur(p) \in DOMAIN precedences THEN precedences[cur(p)] ELSE LOWEST

peekPrecedence(p) ==
  IF peek(p) \in DOMAIN precedences THEN precedences[peek(p)] ELSE LOWEST

addError(p, e) ==
  IF p.status # "ok" THEN p ELSE [p EXCEPT !.errors = Append(@, e)]

expectedTokenError(p, tokenType) ==
  addError(p, [msg |-> "se esperaba", want |-> tokenType, got |-> peek(p)])

\* expepectedToken that advances whatever peekToken is.
expepectedTokenAlways(p, tokenType) ==
  [p |-> advanceTokens(p), ok |-> peek(p) = tokenType]

expepectedToken(p, tokenType) ==
  IF peek(p) = tokenType
  THEN [p |-> advanceTokens(p), ok |-> TRUE]
  ELSE [p |-> expectedTokenError(p, tokenType), ok |-> FALSE]

-----------------------------------------------------------------------------
(* AST nodes                                                               *)

\* An absent node (Go's nil Expression / nil Stmt).
Nil == [kind |-> "nil"]

NewIdentifier(token, value) ==
  [kind |-> "Identifier", Token |-> token, Value |-> value]

NewInteger(token, value) ==
  [kind |-> "Integer", Token |-> token, Value |-> value]

NewBoolean(token, value) ==
  [kind |-> "Boolean", Token |-> token, Value |-> value]

NewStringLiteral(token, value) ==
  [kind |-> "StringLiteral", Token |-> token, Value |-> value]

NewNull(token) == [kind |-> "Null", Token |-> token]

NewPrefix(token, operator, right) ==
  [kind |-> "Prefix", Token |-> token, Operator |-> operator, Rigth |-> right]

Newinfix(token, right, operator, left) ==
  [kind |-> "Infix", Token |-> token, Left |-> left, Operator |-> operator,
   Rigth |-> right]

NewSuffix(token, left, operator) ==
  [kind |-> "Suffix", Token |-> token, Left |-> left, Operator |-> operator]

NewCall(token, function, arguments) ==
  [kind |-> "Call", Token |-> token, Function |-> function,
   Arguments |-> arguments]

NewCallList(token, listIdent, index) ==
  [kind |-> "CallList", Token |-> token, ListIdent |-> listIdent,
   Index |-> index]

NewMethodExpression(token, obj, method) ==
  [kind |-> "MethodExpression", Token |-> token, Obj |-> obj,
   Method |-> method]

NewReassignment(token, ident, newVal) ==
  [kind |-> "Reassignment", Token |-> token, Identifier |-> ident,
   NewVal |-> newVal]

NewAssigmentExp(token, name, val) ==
  [kind |-> "AssigmentExp", Token |-> token, Name |-> name, Val |-> val]

NewClassFieldCall(token, class, field) ==
  [kind |-> "ClassFieldCall", Token |-> token, Class |-> class,
   Field |-> field]

NewRange(token, variable, range) ==
  [kind |-> "RangeExpression", Token |-> token, Variable |-> variable,
   Range |-> range]

NewArray(token, values) ==
  [kind |-> "Array", Token |-> token, Values |-> values]

NewBlock(token, staments) ==
  [kind |-> "Block", Token |-> token, Staments |-> staments]

NewIf(token, condition, consequence, alternative) ==
  [kind |-> "If", Token |-> token, Condition |-> condition,
   Consequence |-> consequence, Alternative |-> alternative]

NewWhile(token, cond, body) ==
  [kind |-> "While", Token |-> token, Condition |-> cond, Body |-> body]

NewFor(token, condition, body) ==
  [kind |-> "For", Token |-> token, Condition |-> condition, Body |-> body]

NewFunction(token, body, parameters) ==
  [kind |-> "Function", Token |-> token, Parameters |-> parameters,
   Body |-> body]

NewLetStatement(token, name, value) ==
  [kind |-> "LetStatement", Token |-> token, Name |-> name, Value |-> value]

NewReturnStatement(token, returnValue) ==
  [kind |-> "ReturnStament", Token |-> token, ReturnValue |-> returnValue]

NewExpressionStament(token, expression) ==
  [kind |-> "ExpressionStament", Token |-> token, Expression |-> expression]

NewClassStatement(token, name, params, methods) ==
  [kind |-> "ClassStatement", Token |-> token, Name |-> name,
   Params |-> params, Methods |-> methods]

NewArrowFunc(token, params, body) ==
  [kind |-> "ArrowFunc", Token |-> token, Params |-> params, Body |-> body]

NewClassMethodExp(token, name, params, body) ==
  [kind |-> "ClassMethodExp", Token |-> token, Name |-> name,
   Params |-> params, Body |-> body]

\* A parse function's result: the parser afterwards and what it returned.
R(p, node) == [p |-> p, node |-> node]

-----------------------------------------------------------------------------
(* Parse functions                                                         *)

\* parseExpression, parseStament and parseBlock call one another through
\* the handlers they dispatch to; the three are reached through one
\* recursive operator that dispatches on the name of the function.
RECURSIVE Call(_, _, _)

parseExpression(p, precedence) == Call("parseExpression", p, precedence)

parseStament(p) == Call("parseStament", p, LOWEST)

parseBlock(p) == Call("parseBlock", p, LOWEST)

RECURSIVE infixLoop(_, _, _), blockLoop(_, _), commaLoop(_, _),
          parametersLoop(_, _), classLoop(_, _)

\* A local variable of a function: v is computed once and the rest of the
\* function, F, runs with it.
Bind(v, F(_)) == F(v)

parseIdentifier(p) ==
  R(p, NewIdentifier(currentToken(p), currentToken(p).Literal))

parseInteger(p) ==
  LET a == Atoi(currentToken(p).Literal)
  IN  IF a.err
      THEN R(addError(p, [msg |-> "no se pudo parsear como entero",
                          lit |-> currentToken(p).Literal]), Nil)
      ELSE R(p, NewInteger(currentToken(p), a.val))

parseBoolean(p) == R(p, NewBoolean(currentToken(p), cur(p) = "TRUE"))

parseStringLiteral(p) ==
  R(p, NewStringLiteral(currentToken(p), currentToken(p).Literal))

ParseNull(p) == R(p, NewNull(currentToken(p)))

parsePrefixExpression(p) ==
  Bind(parseExpression(advanceTokens(p), PREFIX), LAMBDA r :
    R(r.p, NewPrefix(currentToken(p), currentToken(p).Literal, r.node)))

parseGroupExpression(p) ==
  Bind(parseExpression(advanceTokens(p), LOWEST), LAMBDA r :
  Bind(expepectedToken(r.p, "RPAREN"), LAMBDA e :
    IF e.ok THEN R(e.p, r.node) ELSE R(e.p, Nil)))

\* for p.currentToken is neither } nor EOF { parseStament; advanceTokens }
blockLoop(p, block) ==
  IF p.status = "ok" /\ cur(p) # "RBRACE" /\ cur(p) # "EOF"
  THEN Bind(parseStament(p), LAMBDA r :
         blockLoop(advanceTokens(r.p),
                   IF r.node # Nil
                   THEN [block EXCEPT !.Staments = Append(@, r.node)]
                   ELSE block))
  ELSE R(p, block)

parseBlockBody(p) ==
  blockLoop(advanceTokens(p), NewBlock(currentToken(p), <<>>))

\* for p.peekToken is a comma { advance; advance; parseExpression(LOWEST) }
commaLoop(p, values) ==
  IF p.status = "ok" /\ peek(p) = "COMMA"
  THEN Bind(parseExpression(advanceTokens(advanceTokens(p)), LOWEST),
            LAMBDA r : commaLoop(r.p, IF r.node # Nil
                                      THEN Append(values, r.node)
                                      ELSE values))
  ELSE R(p, values)

ParseArrayValues(p) ==
  IF peek(p) = "RBRACKET" THEN R(advanceTokens(p), <<>>)
  ELSE Bind(parseExpression(advanceTokens(p), LOWEST), LAMBDA r :
       Bind(commaLoop(r.p, IF r.node # Nil THEN <<r.node>> ELSE <<>>),
            LAMBDA l :
       Bind(expepectedToken(l.p, "RBRACKET"), LAMBDA e :
         IF e.ok THEN R(e.p, l.node) ELSE R(e.p, <<>>))))

ParseArray(p) ==
  Bind(expepectedToken(p, "LBRACKET"), LAMBDA e :
    IF ~e.ok THEN R(e.p, Nil)
    ELSE Bind(ParseArrayValues(e.p), LAMBDA v :
           R(v.p, NewArray(currentToken(p), v.node))))

parseCallArguments(p) ==
  IF peek(p) = "RPAREN" THEN R(advanceTokens(p), <<>>)
  ELSE Bind(parseExpression(advanceTokens(p), LOWEST), LAMBDA r :
       Bind(commaLoop(r.p, IF r.node # Nil THEN <<r.node>> ELSE <<>>),
            LAMBDA l :
       Bind(expepectedToken(l.p, "RPAREN"), LAMBDA e :
         IF e.ok THEN R(e.p, l.node) ELSE R(e.p, <<>>))))

\* for p.peekToken is a comma { advance; advance; NewIdentifier(current) }
parametersLoop(p, params) ==
  IF p.status = "ok" /\ peek(p) = "COMMA"
  THEN Bind(advanceTokens(advanceTokens(p)), LAMBDA a :
         parametersLoop(a, Append(params,
             NewIdentifier(currentToken(a), currentToken(a).Literal))))
  ELSE R(p, params)

parseFunctionParameters(p) ==
  IF peek(p) = "RPAREN" THEN R(advanceTokens(p), <<>>)
  ELSE Bind(advanceTokens(p), LAMBDA a :
       Bind(parametersLoop(a,
              <<NewIdentifier(currentToken(a), currentToken(a).Literal)>>),
            LAMBDA l :
       Bind(expepectedToken(l.p, "RPAREN"), LAMBDA e :
         IF e.ok THEN R(e.p, l.node) ELSE R(e.p, <<>>))))

parseFunction(p) ==
  Bind(expepectedToken(p, "LPAREN"), LAMBDA e1 :
    IF ~e1.ok THEN R(e1.p, Nil) ELSE
  Bind(parseFunctionParameters(e1.p), LAMBDA ps :
  Bind(expepectedToken(ps.p, "LBRACE"), LAMBDA e2 :
    IF ~e2.ok THEN R(e2.p, Nil) ELSE
  Bind(parseBlock(e2.p), LAMBDA b :
    R(b.p, NewFunction(currentToken(p), b.node, ps.node))))))

parseRangeExpression(p) ==
  Bind(expepectedToken(p, "IDENT"), LAMBDA e1 :
    IF ~e1.ok THEN R(e1.p, Nil) ELSE
  Bind(expepectedToken(e1.p, "IN"), LAMBDA e2 :
    IF ~e2.ok THEN R(e2.p, Nil) ELSE
  Bind(parseExpression(advanceTokens(e2.p), LOWEST), LAMBDA r :
    R(r.p, NewRange(currentToken(p), parseIdentifier(e1.p).node, r.node)))))

parseFor(p) ==
  Bind(expepectedToken(p, "LPAREN"), LAMBDA e1 :
    IF ~e1.ok THEN R(e1.p, Nil) ELSE
  Bind(parseRangeExpression(e1.p), LAMBDA c :
  Bind(expepectedToken(c.p, "RPAREN"), LAMBDA e2 :
    IF ~e2.ok THEN R(e2.p, Nil) ELSE
  Bind(expepectedToken(e2.p, "LBRACE"), LAMBDA e3 :
    IF ~e3.ok THEN R(e3.p, Nil) ELSE
  Bind(parseBlock(e3.p), LAMBDA b :
    R(b.p, NewFor(currentToken(p), c.node, b.node)))))))

parseWhile(p) ==
  Bind(expepectedToken(p, "LPAREN"), LAMBDA e1 :
    IF ~e1.ok THEN R(e1.p, Nil) ELSE
  Bind(parseExpression(advanceTokens(e1.p), LOWEST), LAMBDA c :
  Bind(expepectedToken(c.p, "RPAREN"), LAMBDA e2 :
    IF ~e2.ok THEN R(e2.p, Nil) ELSE
  Bind(expepectedToken(e2.p, "LBRACE"), LAMBDA e3 :
    IF ~e3.ok THEN R(e3.p, Nil) ELSE
  Bind(parseBlock(e3.p), LAMBDA b :
    R(b.p, NewWhile(currentToken(p), c.node, b.node)))))))

parseIf(p) ==
  Bind(expepectedToken(p, "LPAREN"), LAMBDA e1 :
    IF ~e1.ok THEN R(e1.p, Nil) ELSE
  Bind(parseExpression(advanceTokens(e1.p), LOWEST), LAMBDA c :
  Bind(expepectedToken(c.p, "RPAREN"), LAMBDA e2 :
    IF ~e2.ok THEN R(e2.p, Nil) ELSE
  Bind(expepectedToken(e2.p, "LBRACE"), LAMBDA e3 :
    IF ~e3.ok THEN R(e3.p, Nil) ELSE
  Bind(parseBlock(e3.p), LAMBDA b :
    IF peek(b.p) # "ELSE"
    THEN R(b.p, NewIf(currentToken(p), c.node, b.node, Nil)) ELSE
  Bind(expepectedToken(advanceTokens(b.p), "LBRACE"), LAMBDA e4 :
    IF ~e4.ok THEN R(e4.p, Nil) ELSE
  Bind(parseBlock(e4.p), LAMBDA a :
    R(a.p, NewIf(currentToken(p), c.node, b.node, a.node)))))))))

\* The prefix handler registered for the kind of currentToken.
prefixParseFn(p) ==
  CASE cur(p) \in {"TRUE", "FALSE"} -> parseBoolean(p)
    [] cur(p) = "FOR"               -> parseFor(p)
    [] cur(p) = "FUNCTION"          -> parseFunction(p)
    [] cur(p) = "WHILE"             -> parseWhile(p)
    [] cur(p) = "IDENT"             -> parseIdentifier(p)
    [] cur(p) = "IF"                -> parseIf(p)
    [] cur(p) = "INT"               -> parseInteger(p)
    [] cur(p) = "LPAREN"            -> parseGroupExpression(p)
    [] cur(p) \in {"MINUS", "NOT"}  -> parsePrefixExpression(p)
    [] cur(p) = "STRING"            -> parseStringLiteral(p)
    [] cur(p) = "DATASTRCUT"        -> ParseArray(p)
    [] cur(p) = "NULLT"             -> ParseNull(p)

parseSuffixFn(p, left) ==
  R(p, NewSuffix(currentToken(p), left, currentToken(p).Literal))

parseMethod(p, left) ==
  Bind(expepectedToken(p, "IDENT"), LAMBDA e :
    IF ~e.ok THEN R(e.p, Nil) ELSE
  Bind(parseExpression(e.p, LOWEST), LAMBDA r :
    R(r.p, NewMethodExpression(currentToken(p), left, r.node))))

parseInfixExpression(p, left) ==
  Bind(parseExpression(advanceTokens(p), currentPrecedence(p)), LAMBDA r :
    R(r.p, Newinfix(currentToken(p), r.node, currentToken(p).Literal, left)))

parseCall(p, function) ==
  Bind(parseCallArguments(p), LAMBDA a :
    R(a.p, NewCall(currentToken(p), function, a.node)))

parseCallList(p, valueList) ==
  Bind(parseExpression(advanceTokens(p), LOWEST), LAMBDA r :
  Bind(expepectedToken(r.p, "RBRACKET"), LAMBDA e :
    IF ~e.ok THEN R(e.p, Nil)
    ELSE R(e.p, NewCallList(currentToken(p), valueList, r.node))))

\* parseReassigment with the new value parsed at the precedence of the =
\* sign, as parseInfixExpression parses its right operand.
parseReassigmentAtPrecedence(p, ident) ==
  Bind(parseExpression(advanceTokens(p), currentPrecedence(p)), LAMBDA r :
    R(r.p, NewReassignment(currentToken(p), ident, r.node)))

parseReassigment(p, ident) ==
  Bind(parseExpression(advanceTokens(p), LOWEST), LAMBDA r :
    R(r.p, NewReassignment(currentToken(p), ident, r.node)))

parseClassFieldsCall(p, left) ==
  Bind(parseExpression(advanceTokens(p), LOWEST), LAMBDA r :
    R(r.p, NewClassFieldCall(currentToken(p), left, r.node)))

parseAssigmentExp(p, left) ==
  IF left.kind # "Identifier" THEN R(p, Nil)
  ELSE Bind(parseExpression(advanceTokens(p), LOWEST), LAMBDA r :
         R(r.p, NewAssigmentExp(currentToken(p), left, r.node)))

\* The infix handler registered for the kind of currentToken.
infixParseFn(p, left) ==
  CASE cur(p) \in InfixExpressionTypes -> parseInfixExpression(p, left)
    [] cur(p) = "COLON"                -> parseMethod(p, left)
    [] cur(p) = "LPAREN"               -> parseCall(p, left)
    [] cur(p) = "ASSING"               -> parseReassigment(p, left)
    [] cur(p) = "LBRACKET"             -> parseCallList(p, left)
    [] cur(p) = "DOT"                  -> parseClassFieldsCall(p, left)
    [] cur(p) = "COLONASSING"          -> parseAssigmentExp(p, left)

\* The suffix step of parseExpression: a registered suffix on peekToken is
\* applied and the cursor is advanced onto it and once more.
suffixStep(p, leftExpression) ==
  IF p.status = "ok" /\ peek(p) \in suffixParseFns
  THEN Bind(parseSuffixFn(advanceTokens(p), leftExpression), LAMBDA s :
         R(advanceTokens(s.p), s.node))
  ELSE R(p, leftExpression)

\* The loop of parseExpression over the infix operators that bind tighter
\* than precedence; a nil left operand at an infix operator panics.
infixLoop(p, leftExpression, precedence) ==
  IF p.status = "ok" /\ peek(p) # "SEMICOLON" /\ precedence < peekPrecedence(p)
  THEN IF peek(p) \notin infixParseFns THEN R(p, leftExpression)
       ELSE IF leftExpression = Nil
       THEN R([advanceTokens(p) EXCEPT !.status = "panic"], Nil)
       ELSE Bind(infixParseFn(advanceTokens(p), leftExpression), LAMBDA r :
              infixLoop(r.p, r.node, precedence))
  ELSE R(p, leftExpression)

parseExpressionBody(p, precedence) ==
  IF p.status # "ok" THEN R(p, Nil)
  ELSE IF cur(p) \notin prefixParsFns
  THEN R(addError(p, [msg |-> "no se encontro ninguna funcion para parsear",
                      lit |-> currentToken(p).Literal]), Nil)
  ELSE Bind(prefixParseFn(p), LAMBDA l :
       Bind(suffixStep(l.p, l.node), LAMBDA s :
         infixLoop(s.p, s.node, precedence)))

\* An optional semicolon after a statement's expression is consumed.
skipSemicolon(p) == IF peek(p) = "SEMICOLON" THEN advanceTokens(p) ELSE p

parserExpressionStatement(p) ==
  Bind(parseExpression(p, LOWEST), LAMBDA r :
    R(skipSemicolon(r.p), NewExpressionStament(currentToken(p), r.node)))

parseLetSatement(p) ==
  Bind(expepectedToken(p, "IDENT"), LAMBDA e1 :
    IF ~e1.ok THEN R(e1.p, Nil) ELSE
  Bind(expepectedToken(e1.p, "ASSING"), LAMBDA e2 :
    IF ~e2.ok THEN R(e2.p, Nil) ELSE
  Bind(parseExpression(advanceTokens(e2.p), LOWEST), LAMBDA r :
    R(skipSemicolon(r.p),
      NewLetStatement(currentToken(p), parseIdentifier(e1.p).node, r.node)))))

parseReturnStatement(p) ==
  Bind(parseExpression(advanceTokens(p), LOWEST), LAMBDA r :
    R(skipSemicolon(r.p), NewReturnStatement(currentToken(p), r.node)))

\* A method definition of a class body, name ( params ) { block }, parsed
\* with the expect-or-error discipline of the other structural parsers; on
\* success the cursor is left after the method's closing brace, where the
\* class-body loop (which does not advance) looks for the next method.
parseClassMethod(p) ==
  Bind(expepectedToken(p, "LPAREN"), LAMBDA e1 :
    IF ~e1.ok THEN R(e1.p, Nil) ELSE
  Bind(parseFunctionParameters(e1.p), LAMBDA ps :
  Bind(expepectedToken(ps.p, "LBRACE"), LAMBDA e2 :
    IF ~e2.ok THEN R(e2.p, Nil) ELSE
  Bind(parseBlock(e2.p), LAMBDA b :
    R(advanceTokens(b.p),
      NewClassMethodExp(currentToken(p), parseIdentifier(p).node,
                        ps.node, b.node))))))

\* for p.currentToken is neither } nor EOF { parseClassMethod }: the loop
\* itself never advances, so an iteration that leaves the cursor where it
\* was repeats for ever.
classLoop(p, class) ==
  IF p.status = "ok" /\ cur(p) # "RBRACE" /\ cur(p) # "EOF"
  THEN Bind(parseClassMethod(p), LAMBDA r :
         IF r.p.status = "ok" /\ r.p.pos = p.pos
         THEN R([r.p EXCEPT !.status = "hang"], class)
         ELSE classLoop(r.p,
                IF r.node # Nil /\ r.node.kind = "ClassMethodExp"
                THEN [class EXCEPT !.Methods = Append(@, r.node)]
                ELSE class))
  ELSE R(p, class)

parseClassStatement(p) ==
  Bind(expepectedToken(p, "IDENT"), LAMBDA e1 :
    IF ~e1.ok THEN R(e1.p, Nil) ELSE
  Bind(expepectedToken(e1.p, "LPAREN"), LAMBDA e2 :
    IF ~e2.ok THEN R(e2.p, Nil) ELSE
  Bind(parseFunctionParameters(e2.p), LAMBDA ps :
  Bind(expepectedToken(ps.p, "LBRACE"), LAMBDA e3 :
    IF ~e3.ok THEN R(e3.p, Nil)
    ELSE classLoop(advanceTokens(e3.p),
                   NewClassStatement(currentToken(p),
                                     parseIdentifier(e1.p).node,
                                     ps.node, <<>>))))))

parseStamentBody(p) ==
  IF p.status # "ok" THEN R(p, Nil)
  ELSE CASE cur(p) = "LET"    -> parseLetSatement(p)
         [] cur(p) = "RETURN" -> parseReturnStatement(p)
         [] cur(p) = "CLASS"  -> parseClassStatement(p)
         [] OTHER             -> parserExpressionStatement(p)

Call(fn, p, precedence) ==
  CASE fn = "parseExpression" -> parseExpressionBody(p, precedence)
    [] fn = "parseStament"    -> parseStamentBody(p)
    [] fn = "parseBlock"      -> parseBlockBody(p)

\* The parameters between the bars of an arrow function: none when the
\* next token is the closing bar; otherwise one identifier, a second one if
\* a comma follows, and then the closing bar is expected.
parseArrowValues(p) ==
  IF peek(p) = "BAR" THEN R(advanceTokens(p), <<>>)
  ELSE Bind(advanceTokens(p), LAMBDA a :
       Bind(IF peek(a) = "COMMA"
            THEN Bind(advanceTokens(advanceTokens(a)), LAMBDA b :
                   R(b, <<parseIdentifier(a).node, parseIdentifier(b).node>>))
            ELSE R(a, <<parseIdentifier(a).node>>), LAMBDA v :
       Bind(expepectedToken(v.p, "BAR"), LAMBDA e :
         IF e.ok THEN R(e.p, v.node) ELSE R(e.p, <<>>))))

\* |params| -> body, entered on the opening bar.  A body that is not a
\* block is one expression statement in a Block without a token.
parseArrowFunc(p) ==
  Bind(parseArrowValues(p), LAMBDA ps :
  Bind(expepectedToken(ps.p, "ARROW"), LAMBDA e :
    IF ~e.ok THEN R(e.p, Nil) ELSE
    IF peek(e.p) = "LBRACE"
    THEN Bind(parseBlock(advanceTokens(e.p)), LAMBDA b :
           R(b.p, NewArrowFunc(currentToken(p), ps.node, b.node)))
    ELSE Bind(parserExpressionStatement(advanceTokens(e.p)), LAMBDA x :
           R(x.p, NewArrowFunc(currentToken(p), ps.node,
                               NewBlock(NewToken("Head", ""), <<x.node>>))))))

-----------------------------------------------------------------------------
(* ParseProgam as a state machine: one step per iteration of its loop      *)

\* The parser object between two iterations of ParseProgam's loop.
Parser == [lexer |-> lexer, pos |-> pos, errors |-> errors, status |-> "ok"]

\* The body of ParseProgam's loop: parseStament, then advanceTokens.
ParseProgamBody(p) ==
  Bind(parseStament(p), LAMBDA r : R(advanceTokens(r.p), r.node))

\* One iteration: parseStament, append the statement unless nil, advance.
\* A panic leaves ParseProgam without a result; a loop that never ends keeps
\* it from ever returning.
ParseProgamStep ==
  /\ pc = "loop"
  /\ cur(Parser) # "EOF"
  /\ LET r == ParseProgamBody(Parser)
     IN  /\ program' = IF r.p.status = "ok" /\ r.node # Nil
                       THEN Append(program, r.node)
                       ELSE program
         /\ pos' = r.p.pos
         /\ errors' = r.p.errors
         /\ pc' = IF r.p.status = "ok" THEN "loop" ELSE r.p.status
  /\ UNCHANGED <<lexer, mapa, mapObj, idx, result, tagged>>
  /\ UNCHANGED objectVars

\* currentToken is EOF: the Program is returned.
ParseProgamReturn ==
  /\ pc = "loop"
  /\ cur(Parser) = "EOF"
  /\ pc' = "done"
  /\ UNCHANGED <<lexer, pos, errors, program, mapa, mapObj, idx, result,
                 tagged>>
  /\ UNCHANGED objectVars

-----------------------------------------------------------------------------
(* The token streams ParseProgam is run on                                 *)

MaxLen   == 3   \* longest stream of the exhaustive family
MaxOps   == 2   \* most operators in an operator chain
MaxStmts == 3   \* most statements in a statement sequence

Letters == <<"a", "b", "c", "d", "e", "f", "g", "h", "i">>

T(types) == [i \in DOMAIN types |-> Tok(types[i])]

RECURSIVE Concat(_)
Concat(seqs) == IF seqs = <<>> THEN <<>> ELSE Head(seqs) \o Concat(Tail(seqs))

SeqsUpTo(S, n) == UNION {[1..k -> S] : k \in 0..n}

\* Every stream of at most MaxLen tokens over these kinds.
ShortKinds ==
  { "IDENT", "INT", "PLUS", "MINUS", "PLUS2", "EXPONENT", "ASSING",
    "COLONASSING", "SEMICOLON", "LET", "IF", "LPAREN", "RPAREN" }

ShortInputs == SeqsUpTo({Tok(t) : t \in ShortKinds} \cup {BigIntTok}, MaxLen)

\* The j-th operand of a chain: the integer j or the j-th identifier.
Operand(kind, j) ==
  IF kind = "INT" THEN NewToken("INT", Digits[j])
                  ELSE NewToken("IDENT", Letters[j])

ChainOps == InfixExpressionTypes \cup {"ASSING"}

\* operand (operator operand)*, all operands integers or all identifiers.
Chain(kind, ops) ==
  <<Operand(kind, 1)>> \o
  Concat([i \in 1..Len(ops) |-> <<Tok(ops[i]), Operand(kind, i + 1)>>])

ChainInputs ==
  { Chain(kind, ops) : kind \in {"INT", "IDENT"},
                       ops \in SeqsUpTo(ChainOps, MaxOps) }

\* Statements: well formed, and var statements without name or without =.
StmtFragments ==
  { T(<<"LET", "IDENT", "ASSING", "INT", "SEMICOLON">>),
    T(<<"RETURN", "IDENT", "SEMICOLON">>),
    T(<<"IDENT", "SEMICOLON">>),
    T(<<"IDENT", "PLUS2">>),
    T(<<"LET", "ASSING", "INT", "SEMICOLON">>),
    T(<<"LET", "IDENT", "INT", "SEMICOLON">>) }

StmtInputs == {Concat(ss) : ss \in SeqsUpTo(StmtFragments, MaxStmts)}

\* Streams that reach the structural parsers.
StructInputs ==
  { T(<<"IDENT", "PLUS2", "PLUS", "INT">>),
    T(<<"IDENT", "MINUS2", "PLUS", "INT">>),
    T(<<"IDENT", "EXPONENT", "PLUS", "INT">>),
    T(<<"INT", "COLONASSING", "INT">>),
    T(<<"IDENT", "LBRACKET", "INT", "RBRACKET", "COLONASSING", "INT">>),
    T(<<"IDENT", "LBRACKET", "INT", "RBRACKET", "ASSING", "INT">>),
    T(<<"IDENT", "COLON", "IDENT", "LPAREN", "RPAREN", "PLUS", "INT">>),
    T(<<"IDENT", "COLON", "LPAREN">>),
    T(<<"IDENT", "DOT", "IDENT", "LPAREN", "INT", "COMMA", "INT", "RPAREN">>),
    T(<<"IDENT", "LPAREN", "INT">>),
    T(<<"DATASTRCUT", "LBRACKET", "INT", "COMMA", "INT", "RBRACKET">>),
    T(<<"DATASTRCUT", "LBRACKET", "RBRACKET">>),
    T(<<"DATASTRCUT", "LBRACKET", "INT">>),
    T(<<"DATASTRCUT", "INT">>),
    T(<<"NOT", "TRUE", "EQ", "FALSE">>),
    T(<<"STRING", "PLUS", "NULLT">>),
    T(<<"LPAREN", "INT", "PLUS", "INT", "RPAREN", "TIMES", "INT">>),
    T(<<"FUNCTION", "LPAREN", "IDENT", "COMMA", "IDENT", "RPAREN", "LBRACE",
        "RETURN", "IDENT", "SEMICOLON", "RBRACE">>),
    T(<<"FUNCTION", "LPAREN", "RPAREN", "LBRACE", "IDENT", "PLUS2", "RBRACE",
        "IDENT">>),
    T(<<"FUNCTION", "LPAREN", "RPAREN", "LBRACE", "IDENT">>),
    T(<<"FUNCTION", "LPAREN", "IDENT", "LBRACE">>),
    T(<<"FUNCTION", "LPAREN", "RPAREN", "IDENT">>),
    T(<<"IF", "LPAREN", "IDENT", "RPAREN", "LBRACE", "INT", "RBRACE", "ELSE",
        "LBRACE", "INT", "RBRACE">>),
    T(<<"IF", "LPAREN", "IDENT", "RPAREN", "LBRACE", "INT", "RBRACE">>),
    T(<<"IF", "LPAREN", "IDENT", "RPAREN", "LBRACE", "INT", "RBRACE", "ELSE",
        "INT">>),
    T(<<"IF", "LPAREN", "IDENT", "LBRACE">>),
    T(<<"IF", "LPAREN", "IDENT", "RPAREN", "INT">>),
    T(<<"WHILE", "LPAREN", "IDENT", "LT", "INT", "RPAREN", "LBRACE", "IDENT",
        "PLUS2", "SEMICOLON", "RBRACE">>),
    T(<<"WHILE", "IDENT">>),
    T(<<"WHILE", "LPAREN", "IDENT", "LBRACE">>),
    T(<<"WHILE", "LPAREN", "IDENT", "RPAREN", "RBRACE">>),
    T(<<"FOR", "LPAREN", "IDENT", "IN", "IDENT", "RPAREN", "LBRACE", "IDENT",
        "RBRACE">>),
    T(<<"FOR", "IDENT">>),
    T(<<"FOR", "LPAREN", "INT">>),
    T(<<"FOR", "LPAREN", "IDENT", "IDENT">>),
    T(<<"FOR", "LPAREN", "IDENT", "IN", "IDENT", "LBRACE">>),
    T(<<"FOR", "LPAREN", "IDENT", "IN", "IDENT", "RPAREN", "IDENT">>),
    T(<<"CLASS", "IDENT", "LPAREN", "RPAREN", "LBRACE", "IDENT", "LPAREN",
        "RPAREN", "LBRACE", "RBRACE", "RBRACE", "INT">>),
    T(<<"CLASS", "IDENT", "LPAREN", "RPAREN", "LBRACE", "INT", "RBRACE">>),
    T(<<"CLASS", "IDENT", "LPAREN", "RPAREN", "LBRACE", "IDENT", "LPAREN",
        "RPAREN", "INT">>),
    T(<<"CLASS", "INT">>),
    T(<<"CLASS", "IDENT", "INT">>),
    T(<<"CLASS", "IDENT", "LPAREN", "RPAREN", "INT">>) }

Inputs == ShortInputs \cup ChainInputs \cup StmtInputs \cup StructInputs

-----------------------------------------------------------------------------
(* Evaluator: map literals                                                 *)

\* ast.KeyValue and ast.MapExpression.
NewKeyVal(key, value) == [kind |-> "KeyValue", Key |-> key, Value |-> value]

NewMapExpression(token, body) ==
  [kind |-> "MapExpression", Token |-> token, Body |-> body]

\* Runtime objects.
Number(value) == [Type |-> "INTEGERS", Value |-> value]

String(value) == [Type |-> "STRINGS", Value |-> value]

Error(message) == [Type |-> "ERROR", Message |-> message]

Map(store) == [Type |-> "MAP", Store |-> store]

newError(message) == Error(message)

List(values) == [Type |-> "LIST", Values |-> values]

Method(methodType, value) ==
  [Type |-> "METHOD", MethodType |-> methodType, Value |-> value]

NewBool(value) == [Type |-> "BOOLEAN", Value |-> value]

SingletonNUll == [Type |-> "NULL"]

\* A *obj.List or *obj.Map: the object itself is heap[ref], shared by every
\* holder of the pointer.
Pointer(type, ref) == [Type |-> type, Ref |-> ref]

\* Go's nil.
GoNil == [Type |-> "nil"]

\* What Map.Get returns for a key that is not stored: nil or the Null
\* object; both are modelled (absentIsNil chooses).
NullVAlue == IF absentIsNil THEN GoNil ELSE SingletonNUll

\* A Go panic that unwinds out of the evaluator.
Panicked == [Type |-> "panic"]

\* No object: nothing has been returned yet.
None == [Type |-> "none"]

\* The bindings of the running program: a and b are bound to the same List
\* (var b = a), m to a Map, n to a number.
Enviroment ==
  [a |-> Pointer("LIST", "l1"), b |-> Pointer("LIST", "l1"),
   m |-> Pointer("MAP", "m1"), n |-> Number(1)]

\* The names the evaluator knows as methods, and their descriptors' types.
methods ==
  [pop |-> "POP", append |-> "APPEND", remove |-> "REMOVE",
   contains |-> "CONTAIS", values |-> "VALUES"]

\* Evaluate on the expressions of the model: literals, a negated number, a
\* name (an unbound one is an Error) and the call on the right of a method
\* colon, which evaluates to a Method descriptor when its name is a method.
RECURSIVE Evaluate(_)
Evaluate(node) ==
  CASE node.kind = "Integer"       -> Number(node.Value)
    [] node.kind = "StringLiteral" -> String(node.Value)
    [] node.kind = "Prefix"        -> Number(0 - Evaluate(node.Rigth).Value)
    [] node.kind = "Identifier"    ->
         IF node.Value \in DOMAIN Enviroment
         THEN Enviroment[node.Value]
         ELSE Error("identificador no encontrado")
    [] node.kind = "Call"          ->
         IF node.Function.Value \in DOMAIN methods
         THEN Method(methods[node.Function.Value],
                     IF node.Arguments = <<>> THEN GoNil
                     ELSE Evaluate(node.Arguments[1]))
         ELSE Error("identificador no encontrado")

\* The text an object prints as: a number's digits, a string's characters.
Inspect(object) ==
  CASE object.Type = "INTEGERS" -> ToString(object.Value)
    [] object.Type = "STRINGS"  -> object.Value
    [] OTHER                    -> object.Type

\* The serialized representation a Map keys its Store by.  Whether it tells
\* a number from the string of its digits is not fixed by what is known of
\* it, so both serializations are modelled (tagged chooses).
Serialize(key) ==
  IF tagged THEN <<key.Type, Inspect(key)>> ELSE <<Inspect(key)>>

\* Map.SetValues: a key whose serialization is already stored is refused.
SetValues(m, key, val) ==
  IF Serialize(key) \in DOMAIN m.Store
  THEN [m |-> m, err |-> TRUE]
  ELSE [m |-> Map(m.Store @@ (Serialize(key) :> val)), err |-> FALSE]

\* Map.UpdateKey: the value stored under the key is replaced.
UpdateKey(m, key, val) ==
  Map((Serialize(key) :> val) @@ m.Store)

\* Map.Get: the value stored under a serialized key.
Get(m, serialized) ==
  IF serialized \in DOMAIN m.Store THEN m.Store[serialized] ELSE NullVAlue

\* evaluateMap's loop body with SetValues' error ignored and the pair
\* written over the one stored.
evaluateMapOverwrite(m, keyVal) ==
  [m   |-> UpdateKey(m, Evaluate(keyVal.Key), Evaluate(keyVal.Value)),
   ret |-> None]

\* The body of evaluateMap's loop for one pair of the literal: the map
\* afterwards and the object evaluateMap returns at once, if any.
evaluateMapPair(m, keyVal) ==
  Bind(SetValues(m, Evaluate(keyVal.Key), Evaluate(keyVal.Value)), LAMBDA s :
    IF s.err THEN [m |-> m, ret |-> newError("no se permiten llaves duplicadas")]
    ELSE [m |-> s.m, ret |-> None])

\* One iteration of evaluateMap's loop over mapa.Body.
evaluateMapStep ==
  /\ result = None
  /\ idx <= Len(mapa.Body)
  /\ LET r == evaluateMapPair(mapObj, mapa.Body[idx])
     IN  /\ mapObj' = r.m
         /\ result' = r.ret
         /\ idx' = IF r.ret = None THEN idx + 1 ELSE idx
  /\ UNCHANGED <<mapa, tagged, lexer, pos, errors, program, pc>>
  /\ UNCHANGED objectVars

\* The loop is over: the map object is returned.
evaluateMapReturn ==
  /\ result = None
  /\ idx > Len(mapa.Body)
  /\ result' = mapObj
  /\ UNCHANGED <<mapa, mapObj, idx, tagged, lexer, pos, errors, program, pc>>
  /\ UNCHANGED objectVars

MaxPairs == 3   \* most key/value pairs in a map literal

\* Keys: the numbers 1 and 2 and the strings "1" and "x"; values: 1 and 2.
KeyNodes ==
  { NewInteger(NewToken("INT", Digits[j]), j) : j \in 1..2 } \cup
  { NewStringLiteral(NewToken("STRING", s), s) : s \in {"1", "x"} }

ValueNodes == { NewInteger(NewToken("INT", Digits[j]), j) : j \in 1..2 }

MapLiterals ==
  { NewMapExpression(NewToken("MAP", "mapa"), body) :
      body \in SeqsUpTo({NewKeyVal(k, v) : k \in KeyNodes, v \in ValueNodes},
                        MaxPairs) }

\* No program is running: no object, no operation.
NoObjects ==
  /\ heap = <<>>
  /\ last = [fn |-> "none"]
  /\ ret = None
  /\ steps = 0
  /\ absentIsNil = FALSE

\* evaluateMap is entered: an empty Store, the loop before its first pair.
EvalInit ==
  /\ mapa \in MapLiterals
  /\ tagged \in BOOLEAN
  /\ mapObj = Map(<<>>)
  /\ idx = 1
  /\ result = None
  /\ lexer = <<>>
  /\ pos = 1
  /\ errors = <<>>
  /\ program = <<>>
  /\ pc = "idle"
  /\ NoObjects

EvalNext == evaluateMapStep \/ evaluateMapReturn

EvalSpec == EvalInit /\ [][EvalNext]_vars

-----------------------------------------------------------------------------
(* Evaluator: subscript reassignment and methods of Lists and Maps         *)

\* What a handler leaves behind: the objects, the object it returned and
\* whether it evaluated the new-value expression of a reassignment.
Outcome(h, r, evaluated) == [heap |-> h, ret |-> r, evaluated |-> evaluated]

notAList(node) == Error("no es una lista")

notAVariable(node) == Error("no es una variable")

noSuchMethod(method, type) == Error("metodo no encontrado")

\* List.Add: the value becomes the last element.
Add(l, val) == List(Append(l.Values, val))

\* List.Pop: the last element is removed and returned.
Pop(l) ==
  IF l.Values = <<>>
  THEN [l |-> l, ret |-> Error("la lista esta vacia")]
  ELSE [l   |-> List(SubSeq(l.Values, 1, Len(l.Values) - 1)),
        ret |-> l.Values[Len(l.Values)]]

\* List.RemoveAt: the element at a 0-based index is removed and returned; an
\* index out of range is an Error.
RemoveAt(l, index) ==
  IF index < 0 \/ index >= Len(l.Values)
  THEN [l |-> l, ret |-> Error("Indice fuera de rango")]
  ELSE [l   |-> List(SubSeq(l.Values, 1, index) \o
                     SubSeq(l.Values, index + 2, Len(l.Values))),
        ret |-> l.Values[index + 1]]

\* evaluateArray: the elements are evaluated from left to right.
evaluateArray(arr) == List([i \in 1..Len(arr.Values) |-> Evaluate(arr.Values[i])])

\* evaluateListReassigment with the write made to a copy of the List.
evaluateListReassigmentOnCopy(h, call, list, newVal) ==
  Bind(Evaluate(call.Index), LAMBDA index :
    IF index.Type # "INTEGERS"
    THEN Outcome(h, Error("El indice debe ser un numero"), FALSE)
    ELSE IF index.Value >= Len(h[list].Values)
    THEN Outcome(h, Error("Indice fuera de rango"), FALSE)
    ELSE IF index.Value < 0
    THEN Outcome(h, Panicked, TRUE)
    ELSE Outcome(("copy" :> [h[list] EXCEPT !.Values[index.Value + 1] =
                               Evaluate(newVal)]) @@ h,
                 SingletonNUll, TRUE))

\* evaluateListReassigment with the bound compared by > instead of >=.
evaluateListReassigmentOffByOne(h, call, list, newVal) ==
  Bind(Evaluate(call.Index), LAMBDA index :
    IF index.Type # "INTEGERS"
    THEN Outcome(h, Error("El indice debe ser un numero"), FALSE)
    ELSE IF index.Value > Len(h[list].Values)
    THEN Outcome(h, Error("Indice fuera de rango"), FALSE)
    ELSE IF index.Value < 0 \/ index.Value >= Len(h[list].Values)
    THEN Outcome(h, Panicked, TRUE)
    ELSE Outcome([h EXCEPT ![list].Values[index.Value + 1] = Evaluate(newVal)],
                 SingletonNUll, TRUE))

\* l[index] = newVal on the List at heap[list].  The index is compared with
\* the length only: list.Values[num.Value] with a negative num.Value is a Go
\* run-time panic, raised after the new value has been evaluated.
evaluateListReassigment(h, call, list, newVal) ==
  Bind(Evaluate(call.Index), LAMBDA index :
    IF index.Type # "INTEGERS"
    THEN Outcome(h, Error("El indice debe ser un numero"), FALSE)
    ELSE IF index.Value >= Len(h[list].Values)
    THEN Outcome(h, Error("Indice fuera de rango"), FALSE)
    ELSE IF index.Value < 0
    THEN Outcome(h, Panicked, TRUE)
    ELSE Outcome([h EXCEPT ![list].Values[index.Value + 1] = Evaluate(newVal)],
                 SingletonNUll, TRUE))

\* m[key] = value on the Map at heap[hashMap]: when Map.Get is not nil the
\* pair goes to SetValues, whose error is dropped; otherwise to UpdateKey.
evaluateMapReassigment(h, hashMap, key, value) ==
  IF Get(h[hashMap], Serialize(key)) # GoNil
  THEN Outcome([h EXCEPT ![hashMap] = SetValues(@, key, value).m],
               SingletonNUll, TRUE)
  ELSE Outcome([h EXCEPT ![hashMap] = UpdateKey(@, key, value)],
               SingletonNUll, TRUE)

\* evaluateReassigment for a subscript target x[i] = e.  (Reassignment of a
\* plain variable, evaluateVarReassigment, changes a binding and no object;
\* the model has no such operation.)
evaluateReassigment(h, reassigment) ==
  IF reassigment.Identifier.kind = "CallList"
  THEN Bind(Evaluate(reassigment.Identifier.ListIdent), LAMBDA evaluated :
         CASE evaluated.Type = "LIST" ->
                evaluateListReassigment(h, reassigment.Identifier,
                                        evaluated.Ref, reassigment.NewVal)
           [] evaluated.Type = "MAP" ->
                evaluateMapReassigment(h, evaluated.Ref,
                                       Evaluate(reassigment.Identifier.Index),
                                       Evaluate(reassigment.NewVal))
           [] OTHER ->
                Outcome(h, notAList(reassigment.Identifier.ListIdent), FALSE))
  ELSE Outcome(h, notAVariable(reassigment.Identifier), FALSE)

\* evaluateListMethods with append leaving the List as it was.
evaluateListMethodsNoAdd(h, list, method) ==
  CASE method.MethodType = "POP" ->
         Bind(Pop(h[list]), LAMBDA r :
           Outcome([h EXCEPT ![list] = r.l], r.ret, FALSE))
    [] method.MethodType = "APPEND" -> Outcome(h, SingletonNUll, FALSE)
    [] method.MethodType = "REMOVE" ->
         IF method.Value.Type # "INTEGERS"
         THEN Outcome(h, Panicked, FALSE)
         ELSE Bind(RemoveAt(h[list], method.Value.Value), LAMBDA r :
                Outcome([h EXCEPT ![list] = r.l], r.ret, FALSE))
    [] OTHER -> Outcome(h, noSuchMethod(Inspect(method), "list"), FALSE)

\* A List's methods.  remove asserts its argument to be a *obj.Number
\* without the comma-ok form: any other argument is a Go run-time panic.
evaluateListMethods(h, list, method) ==
  CASE method.MethodType = "POP" ->
         Bind(Pop(h[list]), LAMBDA r :
           Outcome([h EXCEPT ![list] = r.l], r.ret, FALSE))
    [] method.MethodType = "APPEND" ->
         Outcome([h EXCEPT ![list] = Add(@, method.Value)], SingletonNUll, FALSE)
    [] method.MethodType = "REMOVE" ->
         IF method.Value.Type # "INTEGERS"
         THEN Outcome(h, Panicked, FALSE)
         ELSE Bind(RemoveAt(h[list], method.Value.Value), LAMBDA r :
                Outcome([h EXCEPT ![list] = r.l], r.ret, FALSE))
    [] OTHER -> Outcome(h, noSuchMethod(Inspect(method), "list"), FALSE)

\* A Map's methods.  values ranges over the Store in the order Go's map
\* iteration happens to take: order is that order.
evaluateMapMethods(h, hashMap, method, order) ==
  CASE method.MethodType = "CONTAIS" ->
         Outcome(h, NewBool(Get(h[hashMap], Serialize(method.Value)) # NullVAlue),
                 FALSE)
    [] method.MethodType = "VALUES" ->
         Outcome(h, List([i \in 1..Len(order) |-> h[hashMap].Store[order[i]]]),
                 FALSE)
    [] OTHER -> Outcome(h, noSuchMethod(Inspect(method), "mapa"), FALSE)

\* obj:method(arg).  When the right side does not evaluate to a Method the
\* failed assertion leaves a nil *obj.Method, and the error message is built
\* from its Inspect(), which reads the descriptor's fields through the nil
\* pointer: a Go run-time panic.
evaluateMethod(h, method, order) ==
  Bind(Evaluate(method.Obj), LAMBDA evaluated :
    CASE evaluated.Type = "LIST" ->
           Bind(Evaluate(method.Method), LAMBDA listMethod :
             IF listMethod.Type # "METHOD"
             THEN Outcome(h, Panicked, FALSE)
             ELSE evaluateListMethods(h, evaluated.Ref, listMethod))
      [] evaluated.Type = "MAP" ->
           Bind(Evaluate(method.Method), LAMBDA mapMethod :
             IF mapMethod.Type # "METHOD"
             THEN Outcome(h, Panicked, FALSE)
             ELSE evaluateMapMethods(h, evaluated.Ref, mapMethod, order))
      [] OTHER ->
           Outcome(h, noSuchMethod(method.Method, method.Obj), FALSE))

MaxSteps == 2   \* most operations of one program
MaxList == 2    \* most elements of a list literal

IntLit(j) == NewInteger(NewToken("INT", ToString(j)), j)

StrLit(s) == NewStringLiteral(NewToken("STRING", s), s)

Ident(name) == NewIdentifier(NewToken("IDENT", name), name)

Negative(j) == NewPrefix(NewToken("MINUS", "-"), "-", IntLit(j))

\* Subscripts: 0, 1, MaxList + 1, -1 and the string "x".
IndexNodes == { IntLit(0), IntLit(1), IntLit(MaxList + 1), Negative(1), StrLit("x") }

\* New values: 4 and 5, which no list literal holds.
NewValNodes == { IntLit(4), IntLit(5) }

Reassignment(name, index, newVal) ==
  NewReassignment(NewToken("ASSING", "="),
    NewCallList(NewToken("LBRACKET", "["), Ident(name), index), newVal)

\* The subscript reassignments of a program: x[i] = e on the List through
\* either of its names, on the Map and on the number n; and with the unbound
\* name z, which evaluates to an Error, as new value and as key.
Reassignments ==
  { Reassignment("a", index, IntLit(4)) : index \in IndexNodes } \cup
  { Reassignment("a", index, IntLit(5)) : index \in {IntLit(0), IntLit(1)} } \cup
  { Reassignment("b", index, IntLit(4)) : index \in {IntLit(0), IntLit(1)} } \cup
  { Reassignment("m", IntLit(0), IntLit(4)) } \cup
  { Reassignment("m", StrLit("x"), newVal) : newVal \in NewValNodes } \cup
  { Reassignment("n", IntLit(0), IntLit(4)) } \cup
  { Reassignment("a", IntLit(0), Ident("z")),
    Reassignment("m", StrLit("x"), Ident("z")),
    Reassignment("m", Ident("z"), IntLit(4)) }

MethodCall(name, method, args) ==
  NewMethodExpression(NewToken("COLON", ":"), Ident(name),
                      NewCall(NewToken("LPAREN", "("), Ident(method), args))

\* The method calls of a program: on the List its methods, with arguments
\* in and out of range and of the wrong kind, a Map's method and foo, which
\* is no method; on the Map likewise; on the number n, pop.
MethodCalls ==
  { MethodCall(name, "pop", <<>>) : name \in {"a", "b", "m", "n"} } \cup
  { MethodCall(name, "append", <<IntLit(4)>>) : name \in {"a", "b"} } \cup
  { MethodCall("a", "remove", <<arg>>) :
      arg \in {IntLit(0), IntLit(MaxList + 1), Negative(1), StrLit("x")} } \cup
  { MethodCall("b", "remove", <<StrLit("x")>>) } \cup
  { MethodCall("a", "contains", <<IntLit(0)>>) } \cup
  { MethodCall("m", "contains", <<arg>>) : arg \in {IntLit(0), StrLit("x")} } \cup
  { MethodCall(name, "foo", <<IntLit(0)>>) : name \in {"a", "m"} } \cup
  { MethodCall("m", "values", <<>>) }

\* Every order of a set of keys.
Orders(keys) ==
  { order \in [1..Cardinality(keys) -> keys] :
      \A i, j \in 1..Cardinality(keys) : order[i] = order[j] => i = j }

\* x[i] = e, evaluated.
evaluateReassigmentStep ==
  /\ pc = "objects"
  /\ ret # Panicked
  /\ steps < MaxSteps
  /\ \E node \in Reassignments :
       LET r == evaluateReassigment(heap, node)
       IN  /\ heap' = r.heap
           /\ ret' = r.ret
           /\ last' = [fn |-> "evaluateReassigment", node |-> node,
                       evaluated |-> r.evaluated]
  /\ steps' = steps + 1
  /\ UNCHANGED <<absentIsNil, tagged>>
  /\ UNCHANGED parserVars
  /\ UNCHANGED mapVars

\* obj:method(arg), evaluated.
evaluateMethodStep ==
  /\ pc = "objects"
  /\ ret # Panicked
  /\ steps < MaxSteps
  /\ \E node \in MethodCalls, order \in Orders(DOMAIN heap["m1"].Store) :
       LET r == evaluateMethod(heap, node, order)
       IN  /\ heap' = r.heap
           /\ ret' = r.ret
           /\ last' = [fn |-> "evaluateMethod", node |-> node,
                       evaluated |-> r.evaluated]
  /\ steps' = steps + 1
  /\ UNCHANGED <<absentIsNil, tagged>>
  /\ UNCHANGED parserVars
  /\ UNCHANGED mapVars

\* The list literals a program starts from: those of at most MaxList
\* elements out of 1 and 2, and lista[1, 2, 3].
ArrayLiterals ==
  { NewArray(NewToken("DATASTRCUT", "lista"), values) :
      values \in SeqsUpTo({IntLit(1), IntLit(2)}, MaxList) \cup
                 {<<IntLit(1), IntLit(2), IntLit(3)>>} }

\* The Map of mapa{}, mapa{"x" -> 1} and mapa{"x" -> 1, 1 -> 2}.
MapOfPairs(pairs) ==
  CASE pairs = 0 -> Map(<<>>)
    [] pairs = 1 -> SetValues(Map(<<>>), String("x"), Number(1)).m
    [] OTHER     -> SetValues(SetValues(Map(<<>>), String("x"), Number(1)).m,
                              Number(1), Number(2)).m

\* var a = lista[..]; var b = a; var m = mapa{..} with at most two pairs;
\* var n = 1.
ObjInit ==
  /\ tagged \in BOOLEAN
  /\ absentIsNil \in BOOLEAN
  /\ \E la \in ArrayLiterals, pairs \in 0..2 :
       heap = [l1 |-> evaluateArray(la), m1 |-> MapOfPairs(pairs)]
  /\ last = [fn |-> "none"]
  /\ ret = None
  /\ steps = 0
  /\ pc = "objects"
  /\ lexer = <<>>
  /\ pos = 1
  /\ errors = <<>>
  /\ program = <<>>
  /\ mapa = NewMapExpression(NewToken("MAP", "mapa"), <<>>)
  /\ mapObj = Map(<<>>)
  /\ idx = 1
  /\ result = None

ObjNext == evaluateReassigmentStep \/ evaluateMethodStep

ObjSpec == ObjInit /\ [][ObjNext]_vars

-----------------------------------------------------------------------------
(* Lexer: keywords                                                         *)

\* LookUpTokenType's table of keywords.
keywords ==
  "falso" :> "FALSE" @@ "funcion" :> "FUNCTION" @@ "regresa" :> "RETURN" @@
  "si" :> "IF" @@ "si_no" :> "ELSE" @@ "var" :> "LET" @@
  "verdadero" :> "TRUE" @@ "en" :> "IN" @@ "mientras" :> "WHILE" @@
  "por" :> "FOR" @@ "lista" :> "DATASTRCUT" @@ "nulo" :> "NULLT" @@
  "mapa" :> "MAP"

\* LookUpTokenType with an empty table.
LookUpTokenTypeNoKeywords(literal) == "IDENT"

LookUpTokenType(literal) ==
  IF literal \in DOMAIN keywords THEN keywords[literal] ELSE "IDENT"

\* The literals LookUpTokenType is applied to: the keywords, what three
\* pieces of keywords and other characters spell (si, si_no, sino, en_, ...)
\* and keywords in another case or cut short.
Pieces == {"", "si", "_", "no", "en", "var", "por", "x", "S", "1"}

Literals ==
  { p \o q \o r : p, q, r \in Pieces } \cup DOMAIN keywords \cup
  { "Var", "VAR", "SI", "Falso", "fals", "funcio", "funcion_", "regresar",
    "verdader", "mientra", "listas", "nul", "map", "mapas", "null",
    "true", "false", "if", "else", "return", "let", "function", "while",
    "for", "in", "list" }

\* The lexer has read a word and looks its kind up.
LookUpTokenTypeStep ==
  /\ pc = "lexer"
  /\ \E literal \in Literals :
       /\ last' = [fn |-> "LookUpTokenType", literal |-> literal]
       /\ ret' = LookUpTokenType(literal)
  /\ UNCHANGED <<heap, steps, absentIsNil, tagged>>
  /\ UNCHANGED parserVars
  /\ UNCHANGED mapVars

LexInit ==
  /\ pc = "lexer"
  /\ lexer = <<>>
  /\ pos = 1
  /\ errors = <<>>
  /\ program = <<>>
  /\ mapa = NewMapExpression(NewToken("MAP", "mapa"), <<>>)
  /\ mapObj = Map(<<>>)
  /\ idx = 1
  /\ result = None
  /\ tagged = FALSE
  /\ NoObjects

LexNext == LookUpTokenTypeStep

LexSpec == LexInit /\ [][LexNext]_vars

-----------------------------------------------------------------------------
(* expepectedToken on its own                                              *)

\* A parse function asks for the kind of the next token: the kind that is
\* there, or IDENT or RBRACE whatever is there.
expepectedTokenStep ==
  /\ pc = "expect"
  /\ steps < MaxSteps
  /\ \E tokenType \in {peek(Parser), "IDENT", "RBRACE"} :
       LET r == expepectedToken(Parser, tokenType)
       IN  /\ pos' = r.p.pos
           /\ errors' = r.p.errors
           /\ ret' = r.ok
           /\ last' = [fn |-> "expepectedToken", tokenType |-> tokenType]
  /\ steps' = steps + 1
  /\ UNCHANGED <<lexer, program, pc, heap, absentIsNil, tagged>>
  /\ UNCHANGED mapVars

\* A parser on any of the short streams, before its first token.
ExpectInit ==
  /\ lexer \in ShortInputs
  /\ pos = 1
  /\ errors = <<>>
  /\ program = <<>>
  /\ pc = "expect"
  /\ mapa = NewMapExpression(NewToken("MAP", "mapa"), <<>>)
  /\ mapObj = Map(<<>>)
  /\ idx = 1
  /\ result = None
  /\ tagged = FALSE
  /\ NoObjects

ExpectNext == expepectedTokenStep

ExpectSpec == ExpectInit /\ [][ExpectNext]_vars

-----------------------------------------------------------------------------
(* parseArrowFunc on its own                                               *)

MaxParams == 3   \* most parameters of an arrow function

\* p1, ..., pn with the commas between them.
RECURSIVE CommaSeparated(_)
CommaSeparated(names) ==
  IF names = <<>> THEN <<>>
  ELSE IF Len(names) = 1 THEN <<NewToken("IDENT", names[1])>>
  ELSE <<NewToken("IDENT", names[1]), Tok("COMMA")>> \o
       CommaSeparated(Tail(names))

\* |p1, ..., pn| -> body
ArrowStream(names, body) ==
  <<Tok("BAR")>> \o CommaSeparated(names) \o <<Tok("BAR"), Tok("ARROW")>> \o body

ParamNames == SeqsUpTo({"a", "b", "c"}, MaxParams)

\* Bodies: x, x + 1 and { x }.
ArrowBodies ==
  { T(<<"IDENT">>), T(<<"IDENT", "PLUS", "INT">>),
    T(<<"LBRACE", "IDENT", "RBRACE">>) }

\* The arrow functions of at most MaxParams parameters, and some that are
\* malformed: no closing bar, no arrow, a comma before the closing bar.
ArrowInputs ==
  { ArrowStream(names, body) : names \in ParamNames, body \in ArrowBodies } \cup
  { T(<<"BAR", "IDENT", "ARROW", "IDENT">>),
    T(<<"BAR", "IDENT", "BAR", "IDENT">>),
    T(<<"BAR", "IDENT", "COMMA", "BAR", "ARROW", "IDENT">>),
    T(<<"BAR", "BAR", "ARROW", "PLUS">>) }

\* parseArrowFunc runs on the stream from its opening bar.
parseArrowFuncStep ==
  /\ pc = "arrow"
  /\ LET r == parseArrowFunc(Parser)
     IN  /\ program' = IF r.p.status = "ok" /\ r.node # Nil
                       THEN <<r.node>> ELSE <<>>
         /\ pos' = r.p.pos
         /\ errors' = r.p.errors
         /\ pc' = IF r.p.status = "ok" THEN "returned" ELSE r.p.status
  /\ UNCHANGED <<lexer, tagged>>
  /\ UNCHANGED mapVars
  /\ UNCHANGED objectVars

ArrowInit ==
  /\ lexer \in ArrowInputs
  /\ pos = 1
  /\ errors = <<>>
  /\ program = <<>>
  /\ pc = "arrow"
  /\ mapa = NewMapExpression(NewToken("MAP", "mapa"), <<>>)
  /\ mapObj = Map(<<>>)
  /\ idx = 1
  /\ result = None
  /\ tagged = FALSE
  /\ NoObjects

ArrowNext == parseArrowFuncStep

ArrowSpec == ArrowInit /\ [][ArrowNext]_vars

-----------------------------------------------------------------------------
(* Specification of the parser                                             *)

\* NewParser has advanced twice: currentToken is the first token.
Init ==
  /\ lexer \in Inputs
  /\ pos = 1
  /\ errors = <<>>
  /\ program = <<>>
  /\ pc = "loop"
  /\ mapa = NewMapExpression(NewToken("MAP", "mapa"), <<>>)
  /\ mapObj = Map(<<>>)
  /\ idx = 1
  /\ result = None
  /\ tagged = FALSE
  /\ NoObjects

Next == ParseProgamStep \/ ParseProgamReturn

Spec == Init /\ [][Next]_vars

-----------------------------------------------------------------------------
(* Properties                                                              *)

\* The AST of the j-th operand of a chain.
OperandNode(kind, j) ==
  IF kind = "INT" THEN NewInteger(Operand(kind, j), j)
                  ELSE NewIdentifier(Operand(kind, j), Letters[j])

InfixNode(op, left, right) == Newinfix(Tok(op), right, TokenLiterals[op], left)

\* The Program of one expression statement whose first token is firstToken.
OneStatement(firstToken, expression) ==
  <<NewExpressionStament(firstToken, expression)>>

\* The operators of a stream of the shape operand (operator operand)*.
OpsOf(toks) == [i \in 1..((Len(toks) - 1) \div 2) |-> toks[2 * i].Token_type]

IsChain(toks, kind) ==
  /\ Len(toks) % 2 = 1
  /\ Len(toks) >= 3
  /\ Len(toks) <= 2 * MaxOps + 1
  /\ \A i \in DOMAIN OpsOf(toks) : OpsOf(toks)[i] \in DOMAIN TokenLiterals
  /\ toks = Chain(kind, OpsOf(toks))

\* The binary operators parseInfixExpression is registered for that have a
\* tier in the precedence table.
TieredOps == InfixExpressionTypes \cap DOMAIN precedences

\* ((1 op1 2) op2 3) ... : the first n operators applied left to right.
RECURSIVE LeftNested(_, _, _)
LeftNested(kind, ops, n) ==
  IF n = 0 THEN OperandNode(kind, 1)
  ELSE InfixNode(ops[n], LeftNested(kind, ops, n - 1), OperandNode(kind, n + 1))

\* a = (b = (c ...)) : the reassignments from the i-th operand on, of n.
RECURSIVE RightReassigned(_, _)
RightReassigned(i, n) ==
  IF i > n THEN OperandNode("IDENT", i)
  ELSE NewReassignment(Tok("ASSING"), OperandNode("IDENT", i),
                       RightReassigned(i + 1, n))

\* C1: ParseProgam terminates on every token stream: it is in its loop,
\* which advances the cursor, or has returned its Program; it is never in
\* a loop that repeats without advancing nor gone through a panic.
C1_ParseProgamTerminates == pc \in {"loop", "done"}

\* C2: ParseProgam never panics, whatever the token stream.
C2_NeverPanics == pc # "panic"

\* C3: of two operators of parseInfixExpression in different tiers the one
\* of the higher tier binds tighter wherever it stands: a op1 b op2 c is
\* Infix(a, op1, Infix(b, op2, c)) when op2 is the higher and
\* Infix(Infix(a, op1, b), op2, c) when op1 is.
C3_HigherTierBindsTighter ==
  \A kind \in {"INT", "IDENT"} :
    ( /\ pc = "done"
      /\ IsChain(lexer, kind)
      /\ Len(lexer) = 5
      /\ \A i \in 1..2 : OpsOf(lexer)[i] \in TieredOps
      /\ precedences[OpsOf(lexer)[1]] # precedences[OpsOf(lexer)[2]] )
    => LET op1 == OpsOf(lexer)[1]
           op2 == OpsOf(lexer)[2]
           a   == OperandNode(kind, 1)
           b   == OperandNode(kind, 2)
           c   == OperandNode(kind, 3)
       IN  program = OneStatement(lexer[1],
             IF precedences[op1] < precedences[op2]
             THEN InfixNode(op1, a, InfixNode(op2, b, c))
             ELSE InfixNode(op2, InfixNode(op1, a, b), c))

\* C4: operators of parseInfixExpression of one tier associate left to
\* right: a chain of them parses as Infix(Infix(a, op1, b), op2, c), for
\* every chain within the bound.
C4_EqualTierLeftToRight ==
  \A kind \in {"INT", "IDENT"} :
    ( /\ pc = "done"
      /\ IsChain(lexer, kind)
      /\ Len(lexer) >= 5
      /\ \A i \in DOMAIN OpsOf(lexer) :
            /\ OpsOf(lexer)[i] \in TieredOps
            /\ precedences[OpsOf(lexer)[i]] = precedences[OpsOf(lexer)[1]] )
    => program = OneStatement(lexer[1],
                   LeftNested(kind, OpsOf(lexer), Len(OpsOf(lexer))))

C6_SuffixThenInfix ==
  \A s \in suffixParseFns :
    (pc = "done" /\ lexer = T(<<"IDENT", s, "PLUS", "INT">>))
    => program = OneStatement(lexer[1],
         InfixNode("PLUS",
                   NewSuffix(Tok(s), NewIdentifier(Tok("IDENT"), "x"),
                             TokenLiterals[s]),
                   NewInteger(Tok("INT"), 1)))

\* The positions of the var statements of a stream that lack their name or
\* their =, and of those that have both.
MalformedVars(toks) ==
  { i \in DOMAIN toks :
      /\ toks[i].Token_type = "LET"
      /\ ~ ( /\ i + 2 <= Len(toks)
             /\ toks[i + 1].Token_type = "IDENT"
             /\ toks[i + 2].Token_type = "ASSING" ) }

WellFormedVars(toks) ==
  { i \in DOMAIN toks : toks[i].Token_type = "LET" } \ MalformedVars(toks)

LetStatements(prog) ==
  { k \in DOMAIN prog : prog[k].kind = "LetStatement" }

\* C7: a syntax error does not stop parsing: a stream of statements with
\* two malformed var statements yields at least two errors, and every
\* well-formed var statement after a malformed one is in the Program.
C7_ErrorRecovery ==
  (pc = "done" /\ lexer \in StmtInputs)
  => /\ Cardinality(MalformedVars(lexer)) >= 2 => Len(errors) >= 2
     /\ Cardinality(LetStatements(program)) >=
          Cardinality({ i \in WellFormedVars(lexer) :
                          \E j \in MalformedVars(lexer) : j < i })

\* Whether a node and the nodes below it have all their required children.
RECURSIVE Closed(_)
Closed(n) ==
  /\ n # Nil
  /\ CASE n.kind = "Infix"  -> Closed(n.Left) /\ Closed(n.Rigth)
       [] n.kind = "Prefix" -> Closed(n.Rigth)
       [] n.kind = "Suffix" -> Closed(n.Left)
       [] n.kind = "Reassignment" -> Closed(n.Identifier) /\ Closed(n.NewVal)
       [] n.kind = "LetStatement" -> Closed(n.Name) /\ Closed(n.Value)
       [] n.kind = "ReturnStament" -> Closed(n.ReturnValue)
       [] n.kind = "ExpressionStament" -> Closed(n.Expression)
       [] n.kind = "Block" ->
            \A i \in DOMAIN n.Staments : Closed(n.Staments[i])
       [] n.kind = "Function" -> Closed(n.Body)
       [] n.kind \in {"While", "For"} -> Closed(n.Body)
       [] n.kind = "If" -> Closed(n.Consequence)
       [] OTHER -> TRUE

\* C8: no node attached to the returned Program lacks a required child: a
\* node whose sub-expression failed to parse is discarded, not attached.
C8_NoNilChild ==
  pc = "done" => \A k \in DOMAIN program : Closed(program[k])

\* Whether an AssigmentExp is the expression of some statement of prog.
HasAssigmentExp(prog) ==
  \E k \in DOMAIN prog :
    /\ prog[k].kind = "ExpressionStament"
    /\ prog[k].Expression.kind = "AssigmentExp"

\* C9: := after a left expression that is no bare identifier is rejected:
\* no AssigmentExp is produced and an error is in the list after
\* ParseProgam, for 1 := 1 and for x[1] := 1.
C9_AssignToNonIdentifierRejected ==
  ( /\ pc = "done"
    /\ lexer \in { T(<<"INT", "COLONASSING", "INT">>),
                   T(<<"IDENT", "LBRACKET", "INT", "RBRACKET", "COLONASSING",
                       "INT">>) } )
  => ~HasAssigmentExp(program) /\ errors # <<>>

\* Whether two pairs of a map literal have keys of one serialization.
HasDuplicateKeys(body) ==
  \E i, j \in DOMAIN body :
    i # j /\ Serialize(Evaluate(body[i].Key)) = Serialize(Evaluate(body[j].Key))

\* C10: a map literal with two keys of the same serialization evaluates to
\* the duplicate-keys Error, never to a Map; one whose keys are pairwise
\* distinct evaluates to a Map holding exactly its pairs.
C10_DuplicateKeysRejected ==
  result # None =>
    IF HasDuplicateKeys(mapa.Body)
    THEN result = Error("no se permiten llaves duplicadas")
    ELSE /\ result.Type = "MAP"
         /\ DOMAIN result.Store =
              { Serialize(Evaluate(mapa.Body[i].Key)) : i \in DOMAIN mapa.Body }
         /\ \A i \in DOMAIN mapa.Body :
              result.Store[Serialize(Evaluate(mapa.Body[i].Key))] =
                Evaluate(mapa.Body[i].Value)

\* A literal whose second pair repeats the key of the first with another
\* value has been evaluated to an Error.
C10_Witness ==
  /\ result.Type = "ERROR"
  /\ Len(mapa.Body) >= 2
  /\ Serialize(Evaluate(mapa.Body[1].Key)) =
       Serialize(Evaluate(mapa.Body[2].Key))
  /\ mapa.Body[1].Value # mapa.Body[2].Value

\* The operation evaluated last and what it was applied to.
IsReassigment == last.fn = "evaluateReassigment"

IsMethod == last.fn = "evaluateMethod"

\* The name a subscript reassignment is applied to, and its subscript.
Subscripted == last.node.Identifier.ListIdent.Value

Subscript == Evaluate(last.node.Identifier.Index)

\* The elements of the List a name is bound to.
ListOf(name) == heap[Enviroment[name].Ref].Values

\* C11: m[k] = v on a Map upserts: it evaluates to Null (never to a
\* duplicate-key Error) and afterwards the value stored under k is v, whether
\* or not k was a key of the map before.
C11_MapReassignmentUpserts ==
  (IsReassigment /\ Subscripted = "m") =>
    /\ ret = SingletonNUll
    /\ Get(heap["m1"], Serialize(Subscript)) = Evaluate(last.node.NewVal)

\* The subscript of a reassignment of a List is a number.
IsListReassigment(l) ==
  /\ l.fn = "evaluateReassigment"
  /\ l.node.Identifier.ListIdent.Value \in {"a", "b"}
  /\ Evaluate(l.node.Identifier.Index).Type = "INTEGERS"

\* C12: l[n] = e with n >= length(l) evaluates to the index-out-of-range
\* Error, leaves the List as it was and does not evaluate e; with
\* 0 <= n < length(l) it evaluates to Null and replaces element n, and no
\* other, by the value of e.
C12_ListReassignmentInRange ==
  [][ (IsListReassigment(last') /\ Evaluate(last'.node.Identifier.Index).Value >= 0) =>
        LET n   == Evaluate(last'.node.Identifier.Index).Value
            old == heap["l1"].Values
        IN  IF n >= Len(old)
            THEN /\ ret' = Error("Indice fuera de rango")
                 /\ heap' = heap
                 /\ ~last'.evaluated
            ELSE /\ ret' = SingletonNUll
                 /\ heap' = [heap EXCEPT !["l1"].Values[n + 1] =
                                           Evaluate(last'.node.NewVal)]
                 /\ last'.evaluated ]_vars

\* l[n] = e has been evaluated with n = length(l), and with n in range.
C12_Witness ==
  /\ IsListReassigment(last)
  /\ \/ /\ Subscript.Value = Len(ListOf("a"))
        /\ ret = Error("Indice fuera de rango")
     \/ /\ Subscript.Value = 1
        /\ Len(ListOf("a")) = 2
        /\ ret = SingletonNUll

\* C13: l[n] = e with a negative n evaluates to the index-out-of-range
\* Error; the interpreter does not crash.
C13_NegativeIndexRejected ==
  (IsListReassigment(last) /\ Subscript.Value < 0) =>
    ret = Error("Indice fuera de rango")

\* The other name of the List a and b are bound to.
Alias(name) == IF name = "a" THEN "b" ELSE "a"

\* The receiver of a method call, the method's name and its argument.
Receiver == last.node.Obj.Value

MethodName == last.node.Method.Function.Value

Argument == Evaluate(last.node.Method.Arguments[1])

\* C14: a List bound to two names is one object: after a subscript
\* reassignment or an append through one name, whatever mutations came
\* before, the new element is read through the other name.
C14_ListsShared ==
  /\ (IsListReassigment(last) /\ ret = SingletonNUll) =>
       ListOf(Alias(Subscripted))[Subscript.Value + 1] = Evaluate(last.node.NewVal)
  /\ (IsMethod /\ Receiver \in {"a", "b"} /\ MethodName = "append") =>
       /\ ListOf(Alias(Receiver)) # <<>>
       /\ ListOf(Alias(Receiver))[Len(ListOf(Alias(Receiver)))] = Argument

\* After two mutations, the last one through a, b reads both.
C14_Witness ==
  /\ steps = 2
  /\ IsListReassigment(last)
  /\ Subscripted = "a"
  /\ Subscript.Value = 0
  /\ ret = SingletonNUll
  /\ ListOf("b") = <<Number(5), Number(2), Number(4)>>

\* C15: l:append(v) evaluates to Null and leaves the List with one element
\* more: the elements it had, in their order, and then v.
C15_AppendAddsLast ==
  [][ (last'.fn = "evaluateMethod" /\ last'.node.Obj.Value \in {"a", "b"}
         /\ last'.node.Method.Function.Value = "append") =>
        /\ ret' = SingletonNUll
        /\ heap' = [heap EXCEPT !["l1"].Values =
                      Append(@, Evaluate(last'.node.Method.Arguments[1]))] ]_vars

\* var l = lista[1,2,3]; l:append(4); l is [1,2,3,4].
C15_Witness ==
  /\ steps = 1
  /\ IsMethod
  /\ MethodName = "append"
  /\ ret = SingletonNUll
  /\ ListOf("a") = <<Number(1), Number(2), Number(3), Number(4)>>

\* C16: obj:method(arg) evaluates to a no-such-method Error when the
\* receiver is neither a List nor a Map, and when it is one but the right
\* side is no method of its kind.
C16_NoSuchMethod ==
  (/\ IsMethod
   /\ \/ Receiver = "n"
      \/ MethodName \notin DOMAIN methods
      \/ Receiver \in {"a", "b"} /\ MethodName \in {"contains", "values"}
      \/ Receiver = "m" /\ MethodName \in {"pop", "append", "remove"}) =>
    ret = noSuchMethod(last.node.Method, last.node.Obj)

\* C17: remove on a List never panics: whatever its argument, it returns a
\* value, and an Error when the argument is no number or is out of range.
C17_RemoveNeverPanics ==
  (IsMethod /\ Receiver \in {"a", "b"} /\ MethodName = "remove") =>
    /\ ret # Panicked
    /\ (Argument.Type # "INTEGERS" => ret.Type = "ERROR")

\* C18: LookUpTokenType gives var, funcion, si, si_no, regresa, mientras,
\* por, en, mapa, nulo, verdadero, falso and lista their keyword kinds and
\* every other literal the kind IDENT.
C18_KeywordsElseIdent ==
  last.fn = "LookUpTokenType" =>
    ret = CASE last.literal = "var"       -> "LET"
            [] last.literal = "funcion"   -> "FUNCTION"
            [] last.literal = "si"        -> "IF"
            [] last.literal = "si_no"     -> "ELSE"
            [] last.literal = "regresa"   -> "RETURN"
            [] last.literal = "mientras"  -> "WHILE"
            [] last.literal = "por"       -> "FOR"
            [] last.literal = "en"        -> "IN"
            [] last.literal = "mapa"      -> "MAP"
            [] last.literal = "nulo"      -> "NULLT"
            [] last.literal = "verdadero" -> "TRUE"
            [] last.literal = "falso"     -> "FALSE"
            [] last.literal = "lista"     -> "DATASTRCUT"
            [] OTHER                      -> "IDENT"

\* si_no has been looked up, a keyword of which si is a prefix.
C18_Witness ==
  /\ last.fn = "LookUpTokenType"
  /\ last.literal = "si_no"
  /\ ret = "ELSE"

\* C19: expepectedToken(t) with peekToken of kind t makes the former
\* peekToken the currentToken (and the token after it the peekToken),
\* returns true and leaves the error list alone; with peekToken of another
\* kind it leaves both tokens where they are, appends exactly one error and
\* returns false.
C19_ExpectedTokenDiscipline ==
  [][ last'.fn = "expepectedToken" =>
        IF peek(Parser) = last'.tokenType
        THEN /\ currentToken(Parser') = peekToken(Parser)
             /\ peekToken(Parser') = TokAt(Parser, pos + 2)
             /\ ret' = TRUE
             /\ errors' = errors
        ELSE /\ currentToken(Parser') = currentToken(Parser)
             /\ peekToken(Parser') = peekToken(Parser)
             /\ pos' = pos
             /\ ret' = FALSE
             /\ Len(errors') = Len(errors) + 1
             /\ SubSeq(errors', 1, Len(errors)) = errors ]_vars

\* A token that was there and then one that was not: one advance, one error.
C19_Witness ==
  /\ last.fn = "expepectedToken"
  /\ steps = 2
  /\ pos = 2
  /\ ret = FALSE
  /\ Len(errors) = 1

\* The `}` that closes the block opened by the `{` at index i of the
\* stream, for a block without a block inside; 0 if there is none.
ClosingBrace(i) ==
  LET closing == { j \in (i + 1)..Len(lexer) :
                     /\ lexer[j].Token_type = "RBRACE"
                     /\ \A k \in (i + 1)..(j - 1) :
                          lexer[k].Token_type \notin {"LBRACE", "RBRACE"} }
  IN  IF closing = {} THEN 0 ELSE CHOOSE j \in closing : TRUE

\* C20: parseBlock, entered on the `{` of a function, if, else, while or for
\* body, returns with currentToken on the `}` that closes the block, so no
\* token after that `}` has become a statement of the block.
C20_BlockEndsOnClosingBrace ==
  pc = "done" =>
  \A i \in 2..Len(lexer) :
    (/\ lexer[i].Token_type = "LBRACE"
     /\ lexer[i - 1].Token_type \in {"RPAREN", "ELSE"}
     /\ ClosingBrace(i) # 0) =>
      LET r == parseBlock([Parser EXCEPT !.pos = i, !.errors = <<>>])
      IN  r.p.status = "ok" => r.p.pos = ClosingBrace(i)

\* C21: l:pop() + 1 is the Infix of the MethodExpression l:pop() and 1: the
\* Method child of the MethodExpression is the call pop() alone.
C21_MethodRightSideIsCall ==
  (/\ pc = "done"
   /\ lexer = T(<<"IDENT", "COLON", "IDENT", "LPAREN", "RPAREN", "PLUS", "INT">>)) =>
    /\ Len(program) = 1
    /\ program[1].kind = "ExpressionStament"
    /\ program[1].Expression.kind = "Infix"
    /\ program[1].Expression.Operator = "+"
    /\ program[1].Expression.Left.kind = "MethodExpression"
    /\ program[1].Expression.Left.Method.kind = "Call"
    /\ program[1].Expression.Rigth.kind = "Integer"

\* The stream opens the body of a function, if, else, while or for with a
\* `{` after which no `}` comes before EOF.
HasUnclosedBlock ==
  \E i \in 2..Len(lexer) :
    /\ lexer[i].Token_type = "LBRACE"
    /\ lexer[i - 1].Token_type \in {"RPAREN", "ELSE"}
    /\ \A j \in (i + 1)..Len(lexer) : lexer[j].Token_type # "RBRACE"

\* C22: a brace block that reaches EOF before its closing `}` adds a syntax
\* error: after ParseProgam on such a stream the error list is not empty.
C22_UnclosedBlockIsAnError ==
  (pc = "done" /\ HasUnclosedBlock) => errors # <<>>

\* An Error is an element of the List or a key or a value of the Map.
ErrorStored ==
  \/ \E i \in 1..Len(heap["l1"].Values) : heap["l1"].Values[i].Type = "ERROR"
  \/ \E k \in DOMAIN heap["m1"].Store :
       heap["m1"].Store[k].Type = "ERROR" \/ k[Len(k)] = "ERROR"

\* C23: when the new value (or, for a Map, the key) of x[i] = e evaluates to
\* an Error, the reassignment evaluates to that Error and nothing is
\* written: no Error is ever an element, a key or a value.
C23_ErrorsNotStored ==
  /\ ~ErrorStored
  /\ (/\ IsReassigment
      /\ Subscripted \in {"a", "b", "m"}
      /\ Evaluate(last.node.NewVal).Type = "ERROR"
      /\ last.evaluated) =>
       ret = Evaluate(last.node.NewVal)

\* The operation is m:values().
IsValues(l) ==
  /\ l.fn = "evaluateMethod"
  /\ l.node.Obj.Value = "m"
  /\ l.node.Method.Function.Value = "values"

\* C26: two evaluations of m:values() on a map with the same contents return
\* Lists with the same elements in the same order.
C26_ValuesDeterministic ==
  [][ (IsValues(last) /\ IsValues(last') /\ heap'["m1"] = heap["m1"]) =>
        ret' = ret ]_vars

\* The Identifier nodes of p1, ..., pn.
ParamNodes(names) ==
  [i \in 1..Len(names) |-> NewIdentifier(NewToken("IDENT", names[i]), names[i])]

\* C24: for |p1, ..., pn| -> body with any n >= 0 the ArrowFunc node's
\* Params are p1..pn in order and no syntax error is recorded.
C24_ArrowParams ==
  \A names \in ParamNames, body \in ArrowBodies :
    (pc = "returned" /\ lexer = ArrowStream(names, body)) =>
      /\ errors = <<>>
      /\ Len(program) = 1
      /\ program[1].Params = ParamNodes(names)

\* C25: parseExpression returns on the last token of its expression, so
\* the one advance after a statement lands on the next statement and no
\* token is skipped: in x++ y the y is parsed as a second statement (or
\* reported in an error).
C25_NoTokenSkipped ==
  (/\ pc = "done"
   /\ Len(lexer) = 3
   /\ lexer[1].Token_type = "IDENT"
   /\ lexer[2].Token_type = "PLUS2"
   /\ lexer[3].Token_type \in {"IDENT", "INT"}) =>
    \/ errors # <<>>
    \/ /\ Len(program) = 2
       /\ program[2].kind = "ExpressionStament"
       /\ program[2].Expression.kind \in {"Identifier", "Integer"}

====
